---- MODULE Spec2Model ----
(* A model of the Virtual Chemistry Lab Simulator (streamlit_app.py): the       *)
(* chemical catalog, the quantity normalizer standardize_amount, the reaction   *)
(* evaluator calculate_reaction, the color mixer mix_colors, and the session    *)
(* state that the Add / Clear / START REACTION buttons change.                  *)
(*                                                                              *)
(* Python floats are modelled as exact rationals <<n, d>> with d > 0, kept in   *)
(* lowest terms; a decimal literal such as 18.02 is written <<1802, 100>>.      *)
(* The strings the code searches by substring (the type tags) or slices and     *)
(* parses as hex (the "#RRGGBB" colors) are inspected through Chars, which      *)
(* gives a string's characters as a sequence of one-character strings.          *)
EXTENDS Integers, Sequences, FiniteSets, TLC

VARIABLES selected_chemicals, log_last, added, pc, call, ret

vars == <<selected_chemicals, log_last, added, pc, call, ret>>

(***************************************************************************)
(* Bounds of the model                                                     *)
(***************************************************************************)
\* most entries the beaker holds in a session
MaxBeaker == 2
\* longest selection handed directly to calculate_reaction
MaxEvalLen == 3
\* longest color list handed directly to mix_colors
MaxColors == 3

(***************************************************************************)
(* Chemical Data                                                           *)
(***************************************************************************)
CHEMICAL_DATA ==
       "Water (H2O)" :>
        [mm |-> <<1802, 100>>, conc |-> <<5550, 100>>, state |-> "L",
         type |-> "Solvent",
         color |-> "#1E90FF"]
    @@ "Sodium chloride (table salt)" :>
        [mm |-> <<5844, 100>>, conc |-> <<0, 100>>, state |-> "S",
         type |-> "Ionic Solid",
         color |-> "#F0F8FF"]
    @@ "Vinegar (dilute acetic acid)" :>
        [mm |-> <<6005, 100>>, conc |-> <<85, 100>>, state |-> "L",
         type |-> "Weak Acid",
         color |-> "#FFFACD"]
    @@ "Baking soda (sodium bicarbonate)" :>
        [mm |-> <<8401, 100>>, conc |-> <<0, 100>>, state |-> "S",
         type |-> "Carbonate Base",
         color |-> "#F5F5DC"]
    @@ "Sugar (sucrose)" :>
        [mm |-> <<34230, 100>>, conc |-> <<0, 100>>, state |-> "S",
         type |-> "Molecular Solid",
         color |-> "#FFFAFA"]
    @@ "Ethanol (dilute)" :>
        [mm |-> <<4607, 100>>, conc |-> <<170, 100>>, state |-> "L",
         type |-> "Molecular Liquid",
         color |-> "#F0FFFF"]
    @@ "Hydrochloric acid (very dilute)" :>
        [mm |-> <<3646, 100>>, conc |-> <<10, 100>>, state |-> "L",
         type |-> "Strong Acid",
         color |-> "#FFE4E1"]
    @@ "Sodium hydroxide (very dilute)" :>
        [mm |-> <<4000, 100>>, conc |-> <<10, 100>>, state |-> "L",
         type |-> "Strong Base",
         color |-> "#FAFAD2"]
    @@ "Hydrogen peroxide (3%)" :>
        [mm |-> <<3401, 100>>, conc |-> <<88, 100>>, state |-> "L",
         type |-> "Oxidizer",
         color |-> "#F0FFF0"]
    @@ "Bleach (sodium hypochlorite, dilute)" :>
        [mm |-> <<7444, 100>>, conc |-> <<70, 100>>, state |-> "L",
         type |-> "Oxidizer",
         color |-> "#ADD8E6"]
    @@ "Ammonia solution (household, dilute)" :>
        [mm |-> <<1703, 100>>, conc |-> <<150, 100>>, state |-> "L",
         type |-> "Weak Base",
         color |-> "#E0FFFF"]
    @@ "Calcium carbonate (chalk)" :>
        [mm |-> <<10009, 100>>, conc |-> <<0, 100>>, state |-> "S",
         type |-> "Carbonate Solid",
         color |-> "#FFFAF0"]
    @@ "Copper sulfate (dilute)" :>
        [mm |-> <<15961, 100>>, conc |-> <<10, 100>>, state |-> "L",
         type |-> "Ionic Solution",
         color |-> "#4682B4"]


\* The characters of the strings the code searches or slices (a TLA+ string
\* cannot be indexed): the type tags, the three keywords, and the colors.
Chars ==
       "Carbonate Base" :> <<"C","a","r","b","o","n","a","t","e"," ","B","a","s","e">>
    @@ "Carbonate Solid" :> <<"C","a","r","b","o","n","a","t","e"," ","S","o","l","i","d">>
    @@ "Ionic Solid" :> <<"I","o","n","i","c"," ","S","o","l","i","d">>
    @@ "Ionic Solution" :> <<"I","o","n","i","c"," ","S","o","l","u","t","i","o","n">>
    @@ "Molecular Liquid" :> <<"M","o","l","e","c","u","l","a","r"," ","L","i","q","u","i","d">>
    @@ "Molecular Solid" :> <<"M","o","l","e","c","u","l","a","r"," ","S","o","l","i","d">>
    @@ "Oxidizer" :> <<"O","x","i","d","i","z","e","r">>
    @@ "Solvent" :> <<"S","o","l","v","e","n","t">>
    @@ "Strong Acid" :> <<"S","t","r","o","n","g"," ","A","c","i","d">>
    @@ "Strong Base" :> <<"S","t","r","o","n","g"," ","B","a","s","e">>
    @@ "Weak Acid" :> <<"W","e","a","k"," ","A","c","i","d">>
    @@ "Weak Base" :> <<"W","e","a","k"," ","B","a","s","e">>
    @@ "Acid" :> <<"A","c","i","d">>
    @@ "Base" :> <<"B","a","s","e">>
    @@ "Carbonate" :> <<"C","a","r","b","o","n","a","t","e">>
    @@ "#1E90FF" :> <<"#","1","E","9","0","F","F">>
    @@ "#4682B4" :> <<"#","4","6","8","2","B","4">>
    @@ "#ADD8E6" :> <<"#","A","D","D","8","E","6">>
    @@ "#E0FFFF" :> <<"#","E","0","F","F","F","F">>
    @@ "#F0F8FF" :> <<"#","F","0","F","8","F","F">>
    @@ "#F0FFF0" :> <<"#","F","0","F","F","F","0">>
    @@ "#F0FFFF" :> <<"#","F","0","F","F","F","F">>
    @@ "#F5F5DC" :> <<"#","F","5","F","5","D","C">>
    @@ "#FAFAD2" :> <<"#","F","A","F","A","D","2">>
    @@ "#FFE4E1" :> <<"#","F","F","E","4","E","1">>
    @@ "#FFFACD" :> <<"#","F","F","F","A","C","D">>
    @@ "#FFFAF0" :> <<"#","F","F","F","A","F","0">>
    @@ "#FFFAFA" :> <<"#","F","F","F","A","F","A">>
    @@ "#000000" :> <<"#","0","0","0","0","0","0">>
    @@ "#ffffff" :> <<"#","f","f","f","f","f","f">>
    @@ "#01fe80" :> <<"#","0","1","f","e","8","0">>

SAFE_CHEMICALS == DOMAIN CHEMICAL_DATA

(***************************************************************************)
(* Float arithmetic, as exact rationals                                    *)
(***************************************************************************)
Abs(n) == IF n < 0 THEN -n ELSE n

RECURSIVE GCD(_, _)
GCD(a, b) == IF b = 0 THEN a ELSE GCD(b, a % b)

\* the float n / d  (d /= 0)
Rat(n, d) ==
    LET s == IF d < 0 THEN -1 ELSE 1
        g == GCD(Abs(n), Abs(d))
    IN  <<(s * n) \div g, (s * d) \div g>>

Zero == Rat(0, 1)

\* x + y
RatAdd(x, y) ==
    LET g == GCD(x[2], y[2])
    IN  Rat(x[1] * (y[2] \div g) + y[1] * (x[2] \div g), (x[2] \div g) * y[2])

\* x * y
RatMul(x, y) ==
    LET a == Rat(x[1], y[2])
        b == Rat(y[1], x[2])
    IN  <<a[1] * b[1], a[2] * b[2]>>

\* x / y  (y /= 0)
RatDiv(x, y) == RatMul(x, Rat(y[2], y[1]))

\* x > 0
RatPos(x) == x[1] > 0

\* a/b < c/d for a, c >= 0 and b, d > 0, by continued fractions: no product of
\* a numerator and a denominator is formed
RECURSIVE FracLess(_, _, _, _)
FracLess(a, b, c, d) ==
    IF a \div b /= c \div d THEN a \div b < c \div d
    ELSE IF c % d = 0 THEN FALSE
    ELSE IF a % b = 0 THEN TRUE
    ELSE FracLess(d, c % d, b, a % b)

\* x < y
RatLess(x, y) ==
    IF x[1] < 0 /\ y[1] < 0 THEN FracLess(-y[1], y[2], -x[1], x[2])
    ELSE IF x[1] < 0 THEN TRUE
    ELSE IF y[1] < 0 THEN FALSE
    ELSE FracLess(x[1], x[2], y[1], y[2])

\* Python's min(x, y): y only when it is strictly smaller
RatMin(x, y) == IF RatLess(y, x) THEN y ELSE x

\* Python's sum(...) over a list of floats
RECURSIVE RatSum(_)
RatSum(xs) == IF xs = <<>> THEN Zero ELSE RatAdd(xs[1], RatSum(Tail(xs)))

(***************************************************************************)
(* Strings and dictionaries                                                *)
(***************************************************************************)
\* Python's  pat in s  on strings
Contains(s, pat) ==
    LET cs == Chars[s]
        cp == Chars[pat]
    IN  \E i \in 1..(Len(cs) - Len(cp) + 1) : SubSeq(cs, i, i + Len(cp) - 1) = cp


\* the keys of an insertion-ordered dict, kept as the sequence of its items
Keys(d) == {d[i].name : i \in 1..Len(d)}

\* SetItem with a defect: the item is appended even when its key is present
SetItemAppend(d, item) == Append(d, item)

\* d[key] = item: a key already present keeps its position, a new key goes last
SetItem(d, item) ==
    IF item.name \in Keys(d)
    THEN [i \in 1..Len(d) |-> IF d[i].name = item.name THEN item ELSE d[i]]
    ELSE Append(d, item)

\* [f(x) for x in d.values()]
Moles(d) == [i \in 1..Len(d) |-> d[i].moles]

\* what a call gives back: a value, or the exception it raises
Returned(v) == [raised |-> "none", value |-> v]
Raised(e) == [raised |-> e, value |-> <<>>]

(***************************************************************************)
(* Helper Functions                                                        *)
(***************************************************************************)
\* standardize_amount with a defect: a negative amount counts as none
standardize_amount_clamped(chemical, amount, unit) ==
    IF chemical \notin DOMAIN CHEMICAL_DATA THEN Raised("KeyError")
    ELSE
    LET data == CHEMICAL_DATA[chemical]
        positive == IF amount < 0 THEN 0 ELSE amount
        volume_l == IF unit = "ml" THEN Rat(positive, 1000) ELSE Rat(positive, 1)
    IN  IF data.state = "L"
        THEN Returned(RatMul(Rat(data.conc[1], data.conc[2]), volume_l))
        ELSE Returned(RatDiv(Rat(positive, 1), Rat(data.mm[1], data.mm[2])))

standardize_amount(chemical, amount, unit) ==
    IF chemical \notin DOMAIN CHEMICAL_DATA THEN Raised("KeyError")
    ELSE
    LET data == CHEMICAL_DATA[chemical]
        volume_l == IF unit = "ml" THEN Rat(amount, 1000) ELSE Rat(amount, 1)
    IN  IF data.state = "L"
        THEN Returned(RatMul(Rat(data.conc[1], data.conc[2]), volume_l))
        ELSE Returned(RatDiv(Rat(amount, 1), Rat(data.mm[1], data.mm[2])))

\* the clauses calculate_reaction appends to desc
Neutralization(min_moles) == <<"Neutralization!", min_moles>>
Dissolving(s_name, moles) == <<"Dissolving!", s_name, moles>>
Precipitation == <<"Precipitation!">>
SingleChemical == <<"Single chemical selected. No reaction.">>
NoKnownReaction == <<"No known reaction. Likely a simple mixture or dissolution.">>

IsAcid(chem) == Contains(chem.type, "Acid")
IsBase(chem) == Contains(chem.type, "Base")
IsCarbonate(chem) == Contains(chem.type, "Carbonate")
IsPlainSolid(chem) == chem.state = "S" /\ ~IsAcid(chem) /\ ~IsBase(chem)

\* the loop over solids.items(): one clause per solid with moles > 0, in order
RECURSIVE DissolutionClauses(_)
DissolutionClauses(solids) ==
    IF solids = <<>> THEN <<>>
    ELSE (IF RatPos(solids[1].moles)
          THEN <<Dissolving(solids[1].name, solids[1].moles)>>
          ELSE <<>>) \o DissolutionClauses(Tail(solids))

\* Each rule gives the clauses it appends to desc, whether it sets
\* reaction_happened, and the exception it raises ("none" when it raises none).
NoClause == [desc |-> <<>>, happened |-> FALSE, raised |-> "none"]

\* 1. Acid-Base Neutralization
NeutralizationRule(acid_moles, base_moles) ==
    IF RatPos(acid_moles) /\ RatPos(base_moles)
    THEN [desc |-> <<Neutralization(RatMin(acid_moles, base_moles))>>,
          happened |-> TRUE, raised |-> "none"]
    ELSE NoClause

\* GasEvolutionRule with a defect: the acid is forgotten
GasEvolutionRuleNoAcid(acids, carbonates, acid_moles) ==
    IF carbonates /= <<>> /\ RatPos(RatSum(Moles(carbonates)))
    THEN [desc |-> <<>>, happened |-> FALSE, raised |-> "NameError"]
    ELSE NoClause

\* 2. Acid-Carbonate Reaction (CO2 gas).  The clause is the f-string
\* f"**Gas Evolution!** $\\text{CO}_2$ gas bubbled off: ...": its field {CO}
\* reads a name that is not defined, so building the clause raises NameError.
GasEvolutionRule(acids, carbonates, acid_moles) ==
    IF acids /= <<>> /\ carbonates /= <<>>
    THEN LET total_carbonate_moles == RatSum(Moles(carbonates))
             co2_moles == RatMin(acid_moles, total_carbonate_moles)
         IN  IF RatPos(co2_moles)
             THEN [desc |-> <<>>, happened |-> FALSE, raised |-> "NameError"]
             ELSE NoClause
    ELSE NoClause

\* 3. Dissolution (Solid in water)
DissolutionRule(selected, solids) ==
    IF "Water (H2O)" \in Keys(selected) /\ solids /= <<>>
    THEN [desc |-> DissolutionClauses(solids),
          happened |-> \E i \in 1..Len(solids) : RatPos(solids[i].moles),
          raised |-> "none"]
    ELSE NoClause

\* PrecipitationRule with a defect: the base is forgotten
PrecipitationRuleNoBase(selected, bases) ==
    IF "Copper sulfate (dilute)" \in Keys(selected)
    THEN [desc |-> <<Precipitation>>, happened |-> TRUE, raised |-> "none"]
    ELSE NoClause

\* 4. Specific Precipitation Example (Copper Sulfate + Base)
PrecipitationRule(selected, bases) ==
    IF "Copper sulfate (dilute)" \in Keys(selected) /\ bases /= <<>>
    THEN [desc |-> <<Precipitation>>, happened |-> TRUE, raised |-> "none"]
    ELSE NoClause

\* Fallback with a defect: "<= 1" where the code has "== 1"
FallbackAtMostOne(selected) ==
    IF Len(selected) <= 1 THEN <<SingleChemical>> ELSE <<NoKnownReaction>>

\* if not desc: the clause appended when no rule gave one
Fallback(selected) ==
    IF Len(selected) = 1 THEN <<SingleChemical>> ELSE <<NoKnownReaction>>

\* The returned string is ' | '.join(desc), behind the "REACTION OCCURRED!" banner
\* when reaction_happened: the model returns the flag and the clauses.  A clause
\* keeps the quantity that its text shows to three decimals.  An exception of
\* rule 2 leaves the function before rules 3 and 4 run.
calculate_reaction(selected) ==
    LET acids == SelectSeq(selected, IsAcid)
        bases == SelectSeq(selected, IsBase)
        carbonates == SelectSeq(selected, IsCarbonate)
        solids == SelectSeq(selected, IsPlainSolid)
        acid_moles == IF acids /= <<>> THEN RatSum(Moles(acids)) ELSE Zero
        base_moles == IF bases /= <<>> THEN RatSum(Moles(bases)) ELSE Zero
        rule1 == NeutralizationRule(acid_moles, base_moles)
        rule2 == GasEvolutionRule(acids, carbonates, acid_moles)
        rule3 == DissolutionRule(selected, solids)
        rule4 == PrecipitationRule(selected, bases)
        desc == rule1.desc \o rule2.desc \o rule3.desc \o rule4.desc
        reaction_happened ==
            rule1.happened \/ rule2.happened \/ rule3.happened \/ rule4.happened
    IN  IF rule2.raised /= "none" THEN Raised(rule2.raised)
        ELSE Returned([occurred |-> reaction_happened,
                       desc |-> IF desc = <<>> THEN Fallback(selected) ELSE desc])

\* int(c, 16) of one hex digit, either case
HexDigit ==
    [ch \in {"0","1","2","3","4","5","6","7","8","9",
             "a","b","c","d","e","f","A","B","C","D","E","F"} |->
        CASE ch = "0" -> 0 [] ch = "1" -> 1 [] ch = "2" -> 2 [] ch = "3" -> 3
          [] ch = "4" -> 4 [] ch = "5" -> 5 [] ch = "6" -> 6 [] ch = "7" -> 7
          [] ch = "8" -> 8 [] ch = "9" -> 9
          [] ch \in {"a", "A"} -> 10 [] ch \in {"b", "B"} -> 11
          [] ch \in {"c", "C"} -> 12 [] ch \in {"d", "D"} -> 13
          [] ch \in {"e", "E"} -> 14 [] ch \in {"f", "F"} -> 15]

\* int(c[i:i+2], 16)
HexPair(c, i) == 16 * HexDigit[c[i + 1]] + HexDigit[c[i + 2]]

LowerHex == <<"0","1","2","3","4","5","6","7","8","9","a","b","c","d","e","f">>

\* f'{n:02x}' for 0 <= n <= 255
Format02x(n) == <<LowerHex[(n \div 16) + 1], LowerHex[(n % 16) + 1]>>

RECURSIVE SumSeq(_)
SumSeq(xs) == IF xs = <<>> THEN 0 ELSE xs[1] + SumSeq(Tail(xs))

\* sum(int(c[i:i+2],16) for c in colors)
ChannelSum(colors, i) == SumSeq([k \in 1..Len(colors) |-> HexPair(colors[k], i)])

\* mix_colors with a defect: the average is rounded up
mix_colors_ceil(colors) ==
    IF Len(colors) = 0 THEN Raised("ZeroDivisionError")
    ELSE
    LET r == (ChannelSum(colors, 1) + Len(colors) - 1) \div Len(colors)
        g == (ChannelSum(colors, 3) + Len(colors) - 1) \div Len(colors)
        b == (ChannelSum(colors, 5) + Len(colors) - 1) \div Len(colors)
    IN  Returned(<<"#">> \o Format02x(r) \o Format02x(g) \o Format02x(b))

mix_colors(colors) ==
    IF Len(colors) = 0 THEN Raised("ZeroDivisionError")
    ELSE
    LET r == ChannelSum(colors, 1) \div Len(colors)
        g == ChannelSum(colors, 3) \div Len(colors)
        b == ChannelSum(colors, 5) \div Len(colors)
    IN  Returned(<<"#">> \o Format02x(r) \o Format02x(g) \o Format02x(b))

(***************************************************************************)
(* Session state and the script's button handlers                          *)
(*                                                                         *)
(* selected_chemicals is st.session_state.selected_chemicals.  log_last is *)
(* the last entry of st.session_state.log, <<>> while the log is empty:    *)
(* the log is only appended to, and the script reads back only log[-1].    *)
(* added is a history variable: the chemical, amount and unit of the most  *)
(* recent Add of each chemical since the last Clear.                       *)
(***************************************************************************)
\* the amounts the number_input is given (min_value=0.0, value=10.0)
AMOUNTS == {0, 10}

\* unit_options of a chemical, in the order of the selectbox
unit_options(chem) == IF CHEMICAL_DATA[chem].state = "L" THEN <<"ml", "l">> ELSE <<"g">>

Range(f) == {f[i] : i \in DOMAIN f}

\* the entry the Add button stores under selected_chemicals[chem]
Entry(chem, amt, unit, moles) ==
    [name |-> chem, amount |-> amt, unit |-> unit, moles |-> moles,
     type |-> CHEMICAL_DATA[chem].type,
     color |-> CHEMICAL_DATA[chem].color,
     state |-> CHEMICAL_DATA[chem].state]

InitSession ==
    /\ selected_chemicals = <<>>
    /\ log_last = <<>>
    /\ added = {}
    /\ pc = "session"
    /\ call = <<>>
    /\ ret = <<>>

\* "Add <chem>" clicked with the widgets at amt and unit
Add(chem, amt, unit) ==
    /\ chem \in Keys(selected_chemicals) \/ Len(selected_chemicals) < MaxBeaker
    /\ LET moles == standardize_amount(chem, amt, unit).value
       IN  /\ selected_chemicals' =
                 SetItem(selected_chemicals, Entry(chem, amt, unit, moles))
           /\ log_last' = <<"Added", amt, unit, chem, moles>>
    /\ added' = {a \in added : a[1] /= chem} \cup {<<chem, amt, unit>>}
    /\ UNCHANGED <<pc, call, ret>>

\* "Clear Beaker & Selection" clicked
Clear ==
    /\ selected_chemicals' = <<>>
    /\ log_last' = <<"Cleared">>
    /\ added' = {}
    /\ UNCHANGED <<pc, call, ret>>

\* "START REACTION (Mix)" clicked: a warning for the empty selection; an
\* exception of calculate_reaction ends the script run before the log is appended to
Mix ==
    /\ IF selected_chemicals = <<>>
       THEN UNCHANGED log_last
       ELSE LET reaction == calculate_reaction(selected_chemicals)
            IN  IF reaction.raised /= "none"
                THEN UNCHANGED log_last
                ELSE log_last' = <<"Reaction", reaction.value>>
    /\ UNCHANGED <<selected_chemicals, added, pc, call, ret>>

Next ==
    \/ \E chem \in SAFE_CHEMICALS, amt \in AMOUNTS :
          \E unit \in Range(unit_options(chem)) : Add(chem, amt, unit)
    \/ Clear
    \/ Mix

Spec == InitSession /\ [][Next]_vars

(***************************************************************************)
(* The three helper functions called on their own: the arguments of the    *)
(* call are drawn in the initial state, and the one step is the return.    *)
(***************************************************************************)
ARGUMENT_AMOUNTS == {-10, 0, 10}
ARGUMENT_CHEMICALS == SAFE_CHEMICALS \cup {"Unknown"}
ARGUMENT_UNITS == {"ml", "l", "g"}
ARGUMENT_COLORS ==
    {Chars[CHEMICAL_DATA[c].color] : c \in SAFE_CHEMICALS}
        \cup {Chars["#000000"], Chars["#ffffff"], Chars["#01fe80"]}

\* the entries the Add buttons store with the selectbox at its first unit
ARGUMENT_ENTRIES ==
    {Entry(chem, amt, unit_options(chem)[1],
           standardize_amount(chem, amt, unit_options(chem)[1]).value) :
        chem \in SAFE_CHEMICALS, amt \in AMOUNTS}

\* a dict holds each key once
DistinctKeys(d) == \A i, j \in 1..Len(d) : d[i].name = d[j].name => i = j

NoSession ==
    /\ selected_chemicals = <<>>
    /\ log_last = <<>>
    /\ added = {}

InitStandardizeAmount ==
    /\ NoSession
    /\ pc = "called"
    /\ call \in {<<"standardize_amount", chemical, amount, unit>> :
                    chemical \in ARGUMENT_CHEMICALS, amount \in ARGUMENT_AMOUNTS,
                    unit \in ARGUMENT_UNITS}
    /\ ret = <<>>

ReturnStandardizeAmount ==
    /\ pc = "called"
    /\ call[1] = "standardize_amount"
    /\ ret' = standardize_amount(call[2], call[3], call[4])
    /\ pc' = "returned"
    /\ UNCHANGED <<selected_chemicals, log_last, added, call>>

SpecStandardizeAmount == InitStandardizeAmount /\ [][ReturnStandardizeAmount]_vars

InitCalculateReaction ==
    /\ NoSession
    /\ pc = "called"
    /\ \E n \in 0..MaxEvalLen : \E selected \in [1..n -> ARGUMENT_ENTRIES] :
          /\ DistinctKeys(selected)
          /\ call = <<"calculate_reaction", selected>>
    /\ ret = <<>>

ReturnCalculateReaction ==
    /\ pc = "called"
    /\ call[1] = "calculate_reaction"
    /\ ret' = calculate_reaction(call[2])
    /\ pc' = "returned"
    /\ UNCHANGED <<selected_chemicals, log_last, added, call>>

SpecCalculateReaction == InitCalculateReaction /\ [][ReturnCalculateReaction]_vars

InitMixColors ==
    /\ NoSession
    /\ pc = "called"
    /\ \E n \in 0..MaxColors : \E colors \in [1..n -> ARGUMENT_COLORS] :
          call = <<"mix_colors", colors>>
    /\ ret = <<>>

ReturnMixColors ==
    /\ pc = "called"
    /\ call[1] = "mix_colors"
    /\ ret' = mix_colors(call[2])
    /\ pc' = "returned"
    /\ UNCHANGED <<selected_chemicals, log_last, added, call>>

SpecMixColors == InitMixColors /\ [][ReturnMixColors]_vars

(***************************************************************************)
(* Properties                                                              *)
(***************************************************************************)
\* the role tags of the catalog, by bucket
ACID_ROLES == {"Weak Acid", "Strong Acid"}
BASE_ROLES == {"Carbonate Base", "Strong Base", "Weak Base"}
CARBONATE_ROLES == {"Carbonate Base", "Carbonate Solid"}

\* the sum of moles over the entries of sel whose role is in roles
RECURSIVE MolesOver(_, _)
MolesOver(sel, roles) ==
    IF sel = <<>> THEN Zero
    ELSE RatAdd(IF sel[1].type \in roles THEN sel[1].moles ELSE Zero,
                MolesOver(Tail(sel), roles))

\* q is the smaller of a and b
IsMinOf(q, a, b) == q \in {a, b} /\ ~RatLess(a, q) /\ ~RatLess(b, q)

\* the places of desc that hold a clause of the kind
Places(desc, kind) == {k \in 1..Len(desc) : desc[k][1] = kind}

RULE_KINDS == {"Neutralization!", "Gas Evolution!", "Dissolving!", "Precipitation!"}

\* only the fallback clause, and no reaction
FellThrough(sel, out) ==
    /\ ~out.occurred
    /\ out.desc = IF Len(sel) = 1 THEN <<SingleChemical>> ELSE <<NoKnownReaction>>

\* calculate_reaction has returned, or raised, from a direct call
Evaluated == pc = "returned" /\ call[1] = "calculate_reaction"

\* C1, as claimed: the empty selection evaluates, without an exception, to
\* occurred = false and the one clause "no chemicals selected".
C1_EmptySelectionMessage ==
    (Evaluated /\ call[2] = <<>>) =>
        /\ ret.raised = "none"
        /\ ~ret.value.occurred
        /\ ret.value.desc = <<<<"no chemicals selected">>>>

\* C1, amended: the empty selection evaluates, without an exception, to
\* occurred = false and the one clause "No known reaction. Likely a simple
\* mixture or dissolution.".
C1_EmptySelectionFallsThrough ==
    (Evaluated /\ call[2] = <<>>) =>
        /\ ret.raised = "none"
        /\ ~ret.value.occurred
        /\ ret.value.desc = <<NoKnownReaction>>

C1_Witness == Evaluated /\ call[2] = <<>> /\ ret.raised = "none"

\* the START REACTION handler has logged the reaction of the current selection
Reacted == log_last /= <<>> /\ log_last[1] = "Reaction"

\* C2: a selection of exactly one entry evaluates, whatever the chemical, its
\* amount and its unit, to the one clause "Single chemical selected. No
\* reaction." and occurred = false, and that is what START REACTION logs.
C2_SingleChemical ==
    Len(selected_chemicals) = 1 =>
        LET single == [occurred |-> FALSE, desc |-> <<SingleChemical>>]
        IN  /\ calculate_reaction(selected_chemicals) = Returned(single)
            /\ Reacted => log_last[2] = single

C2_Witness ==
    /\ Reacted
    /\ Len(selected_chemicals) = 1
    /\ selected_chemicals[1].name = "Copper sulfate (dilute)"
    /\ selected_chemicals[1].unit = "l"
    /\ RatPos(selected_chemicals[1].moles)

\* C3, as claimed: for every selection the neutralization clause is emitted if
\* and only if acidMoles > 0 and baseMoles > 0; when emitted, its quantity is
\* min(acidMoles, baseMoles) and occurred is true.
C3_Neutralization ==
    Evaluated =>
        LET acidMoles == MolesOver(call[2], ACID_ROLES)
            baseMoles == MolesOver(call[2], BASE_ROLES)
            emitted == /\ ret.raised = "none"
                       /\ Places(ret.value.desc, "Neutralization!") /= {}
        IN  /\ emitted <=> (RatPos(acidMoles) /\ RatPos(baseMoles))
            /\ emitted =>
                  /\ \A k \in Places(ret.value.desc, "Neutralization!") :
                        IsMinOf(ret.value.desc[k][2], acidMoles, baseMoles)
                  /\ ret.value.occurred

\* a plain solid of the selection dissolves: Water is selected with a solid that
\* is neither acid nor base and has moles > 0
Dissolves(sel) ==
    /\ "Water (H2O)" \in Keys(sel)
    /\ \E i \in 1..Len(sel) :
          /\ sel[i].state = "S"
          /\ sel[i].type \notin ACID_ROLES \cup BASE_ROLES
          /\ RatPos(sel[i].moles)

\* the precipitation pair is selected: Copper sulfate with a base
Precipitates(sel) ==
    /\ "Copper sulfate (dilute)" \in Keys(sel)
    /\ \E i \in 1..Len(sel) : sel[i].type \in BASE_ROLES

CarbonateSolidNoAcid(sel) ==
    /\ \E i \in 1..Len(sel) : sel[i].type = "Carbonate Solid"
    /\ \A i \in 1..Len(sel) : sel[i].type \notin ACID_ROLES

\* C4, as claimed: a selection with a carbonate solid and no acid gets no
\* gas-evolution clause and falls through to the fallback clause, occurred = false.
C4_CarbonateNoAcidFallsThrough ==
    (Evaluated /\ CarbonateSolidNoAcid(call[2])) =>
        /\ ret.raised = "none"
        /\ Places(ret.value.desc, "Gas Evolution!") = {}
        /\ FellThrough(call[2], ret.value)

\* C4, amended: a selection with a carbonate solid and no acid evaluates without
\* an exception and gets no gas-evolution and no neutralization clause; it falls
\* through to the fallback clause with occurred = false unless a solid dissolves
\* in Water or the precipitation pair is selected.
C4_CarbonateNoAcidNoGas ==
    (Evaluated /\ CarbonateSolidNoAcid(call[2])) =>
        /\ ret.raised = "none"
        /\ Places(ret.value.desc, "Gas Evolution!") = {}
        /\ Places(ret.value.desc, "Neutralization!") = {}
        /\ (~Dissolves(call[2]) /\ ~Precipitates(call[2])) =>
              FellThrough(call[2], ret.value)

\* chalk with moles > 0 beside a base, nothing dissolving or precipitating
C4_Witness ==
    /\ Evaluated
    /\ CarbonateSolidNoAcid(call[2])
    /\ Len(call[2]) = 2
    /\ \A i \in 1..2 : RatPos(call[2][i].moles)
    /\ \E i \in 1..2 : call[2][i].type \in BASE_ROLES
    /\ ret = Returned([occurred |-> FALSE, desc |-> <<NoKnownReaction>>])

\* C5, as claimed: a selection whose entries all have moles = 0 gets none of
\* the neutralization, gas-evolution, dissolution and precipitation clauses, and
\* occurred = false.
C5_ZeroMolesTriggerNothing ==
    (Evaluated /\ \A i \in 1..Len(call[2]) : call[2][i].moles = Zero) =>
        /\ ret.raised = "none"
        /\ \A kind \in RULE_KINDS : Places(ret.value.desc, kind) = {}
        /\ ~ret.value.occurred

\* standardize_amount has returned, or raised, from a direct call
Standardized == pc = "returned" /\ call[1] = "standardize_amount"

\* C6, as claimed: amount = 0 gives 0 moles for every catalog chemical, and a
\* negative amount or a chemical that is not in the catalog gives an error
\* instead of moles.
C6_InvalidInputReported ==
    Standardized =>
        /\ (call[2] \in SAFE_CHEMICALS /\ call[3] = 0) => ret = Returned(Zero)
        /\ (call[2] \notin SAFE_CHEMICALS \/ call[3] < 0) => ret.raised /= "none"

\* C6, amended: a chemical that is not in the catalog raises KeyError; for a
\* catalog chemical nothing is raised, amount = 0 gives 0 moles, and a negative
\* amount gives negative moles: the opposite of the moles of the amount negated.
C6_OnlyUnknownChemicalRaises ==
    Standardized =>
        /\ call[2] \notin SAFE_CHEMICALS => ret = Raised("KeyError")
        /\ call[2] \in SAFE_CHEMICALS =>
              /\ ret.raised = "none"
              /\ call[3] = 0 => ret.value = Zero
              /\ call[3] < 0 =>
                    /\ ret.value[1] < 0
                    /\ LET opposite == standardize_amount(call[2], -call[3], call[4]).value
                       IN  ret.value = <<-opposite[1], opposite[2]>>

C6_Witness ==
    /\ Standardized
    /\ call[2] = "Hydrochloric acid (very dilute)"
    /\ call[3] = -10
    /\ call[4] = "ml"
    /\ ret = Returned(<<-1, 1000>>)

\* C7: the selection holds each chemical name at most once; it holds exactly the
\* chemicals added since the last clear (added only shrinks at a clear, so no
\* entry leaves otherwise), and each entry carries the amount and unit of the most
\* recent add of its chemical and the moles standardize_amount gives for them.
C7_SelectionSet ==
    /\ DistinctKeys(selected_chemicals)
    /\ Keys(selected_chemicals) = {a[1] : a \in added}
    /\ \A i \in 1..Len(selected_chemicals) :
          LET e == selected_chemicals[i]
          IN  /\ <<e.name, e.amount, e.unit>> \in added
              /\ e.moles = standardize_amount(e.name, e.amount, e.unit).value

\* the first of two entries has just been added again, with other values than
\* the widgets start at
C7_Witness ==
    /\ Len(selected_chemicals) = 2
    /\ log_last[1] = "Added"
    /\ log_last[4] = selected_chemicals[1].name
    /\ selected_chemicals[1].amount = 0
    /\ selected_chemicals[1].unit = "l"

\* C8, as claimed: with an acid of moles > 0 and a Carbonate Base entry of
\* moles > 0 selected, the neutralization clause comes first and the
\* gas-evolution clause second; each reports min(acidMoles, moles of that
\* entry) when that entry is the only base, respectively the only carbonate.
C8_CarbonateBaseBothClauses ==
    Evaluated =>
        LET sel == call[2]
            acidMoles == MolesOver(sel, ACID_ROLES)
        IN  \A i \in 1..Len(sel) :
              (/\ sel[i].type = "Carbonate Base"
               /\ RatPos(sel[i].moles)
               /\ RatPos(acidMoles)) =>
                  /\ ret.raised = "none"
                  /\ Len(ret.value.desc) >= 2
                  /\ ret.value.desc[1][1] = "Neutralization!"
                  /\ ret.value.desc[2][1] = "Gas Evolution!"
                  /\ ret.value.occurred
                  /\ (\A j \in 1..Len(sel) : j /= i => sel[j].type \notin BASE_ROLES)
                        => IsMinOf(ret.value.desc[1][2], acidMoles, sel[i].moles)
                  /\ (\A j \in 1..Len(sel) : j /= i => sel[j].type \notin CARBONATE_ROLES)
                        => IsMinOf(ret.value.desc[2][2], acidMoles, sel[i].moles)

\* the dissolution clauses the selection calls for, in insertion order
RECURSIVE ExpectedDissolving(_, _)
ExpectedDissolving(sel, water) ==
    IF sel = <<>> THEN <<>>
    ELSE (IF /\ water
             /\ sel[1].state = "S"
             /\ sel[1].type \notin ACID_ROLES \cup BASE_ROLES
             /\ RatPos(sel[1].moles)
          THEN <<Dissolving(sel[1].name, sel[1].moles)>>
          ELSE <<>>) \o ExpectedDissolving(Tail(sel), water)

IsDissolving(clause) == clause[1] = "Dissolving!"

\* C9, as claimed: for every selection the dissolution clauses emitted are
\* exactly one for each plain solid with moles > 0 when Water is selected, in
\* insertion order, and none otherwise; occurred is true whenever one is emitted.
C9_Dissolution ==
    Evaluated =>
        LET expected == ExpectedDissolving(call[2], "Water (H2O)" \in Keys(call[2]))
            emitted == IF ret.raised = "none"
                       THEN SelectSeq(ret.value.desc, IsDissolving)
                       ELSE <<>>
        IN  /\ emitted = expected
            /\ emitted /= <<>> => ret.value.occurred

\* mix_colors has returned, or raised, from a direct call
Mixed == pc = "returned" /\ call[1] = "mix_colors"

\* the red, green and blue channels of a "#RRGGBB" color
Channels(c) == <<HexPair(c, 1), HexPair(c, 3), HexPair(c, 5)>>

\* the sum of channel k over the colors
RECURSIVE ChannelTotal(_, _)
ChannelTotal(colors, k) ==
    IF colors = <<>> THEN 0 ELSE Channels(colors[1])[k] + ChannelTotal(Tail(colors), k)

\* the colors in every order
Reorderings(colors) ==
    {[i \in 1..Len(colors) |-> colors[p[i]]] :
        p \in {q \in [1..Len(colors) -> 1..Len(colors)] :
                  \A i, j \in 1..Len(colors) : q[i] = q[j] => i = j}}

\* C10: for a non-empty list of colors each channel of the result is the floor
\* of the channel's sum over the number of colors; the result is the same for
\* every order of the list, and a single color comes back with its channels
\* unchanged.
C10_MixIsFloorAverage ==
    (Mixed /\ call[2] /= <<>>) =>
        LET n == Len(call[2])
        IN  /\ ret.raised = "none"
            /\ Len(ret.value) = 7
            /\ ret.value[1] = "#"
            /\ \A k \in 1..3 :
                  /\ n * Channels(ret.value)[k] <= ChannelTotal(call[2], k)
                  /\ ChannelTotal(call[2], k) < n * (Channels(ret.value)[k] + 1)
            /\ \A other \in Reorderings(call[2]) : mix_colors(other) = ret
            /\ n = 1 => Channels(ret.value) = Channels(call[2][1])

\* three different colors whose sums do not divide by three
C10_Witness ==
    /\ Mixed
    /\ Len(call[2]) = 3
    /\ Cardinality({call[2][i] : i \in 1..3}) = 3
    /\ \A k \in 1..3 : ChannelTotal(call[2], k) % 3 /= 0

====
